---- MODULE Spec2Model ----
(***************************************************************************)
(* Model of the New Relic kubernetes operator's reconcilers:               *)
(*   PolicyReconciler        (controllers/policy_controller.go)            *)
(*   AlertsChannelReconciler (controllers/alertschannel_controller.go)     *)
(* together with the collaborators they drive: the declarative object      *)
(* store (policy, channel and child condition resources), the secret       *)
(* lookup, the alerts client factory and the remote alerting API.          *)
(*                                                                         *)
(* One Reconcile invocation is one action.  Every collaborator call the    *)
(* invocation makes is appended, in program order, to last.calls, so that  *)
(* "which calls, how many, in which order" are state predicates.           *)
(* Every collaborator call may fail: an operation yields the set of its    *)
(* possible outcomes, and the invocation takes any one of them.            *)
(***************************************************************************)
EXTENDS Integers, Sequences, FiniteSets, TLC

VARIABLES
    policy,          \* the stored Policy resource: <<>> (absent) or <<object>>
    channel,         \* the stored AlertsChannel resource: <<>> or <<object>>
    conditions,      \* the stored NrqlAlertCondition child resources (a set)
    remotePolicies,  \* the policies held by the remote alerting API
    remoteChannels,  \* the channel ids held by the remote alerting API
    nextID,          \* the next identifier the remote API hands out
    edits,           \* number of user edits made so far
    watched,         \* the kind of resource declared: "policy" or "channel"
    last,            \* the last Reconcile invocation: kind, result, calls, pre-state
    rApiKey,         \* r.apiKey, the field of the one PolicyReconciler
    rAlerts,         \* r.Alerts, the field holding the alerts client
    worker,          \* per request: where its running Reconcile stands
    remoteCalls,     \* the remote calls made, each with the client it went through
    logged           \* the "Api Key" values written to the log, per request

\* the state the interleaved invocations of SpecConcurrent work on
workerVars == <<rApiKey, rAlerts, worker, remoteCalls, logged>>

vars == <<policy, channel, conditions, remotePolicies, remoteChannels, nextID, edits,
          watched, last, workerVars>>

-----------------------------------------------------------------------------
(* Bounds of the model *)

\* at most this many user edits of the declared resource
MaxEdits == 2
\* the remote API hands out identifiers 1..MaxRemoteID
MaxRemoteID == 3
\* the invocations each concurrently delivered request gets
MaxRuns == 2

-----------------------------------------------------------------------------
(* Values *)

\* a nil pointer, and a pointer to v
Nil == <<>>
Ptr(v) == <<v>>

\* the zero value of nrv1.NewRelicAPIKeySecret, and a reference to a secret
NoSecret == [Namespace |-> "", Name |-> "", KeyName |-> ""]
SecretRef == [Namespace |-> "default", Name |-> "nr-secret", KeyName |-> "key"]

\* the key held by the referenced secret
SecretData == "s3cr3t"

PolicyFinalizer == "storage.finalizers.tutorial.kubebuilder.io"
ChannelFinalizer == "alertschannels.finalizers.nr.k8s.newrelic.com"
\* a finalizer that is not the reconcilers'
OtherFinalizer == "kubernetes.io/other"

containsString(slice, s) == \E i \in 1..Len(slice) : slice[i] = s
removeString(slice, s) == SelectSeq(slice, LAMBDA x : x # s)

\* nrv1.NrqlAlertConditionStatus as createCondition sets it
ClearedConditionStatus == [AppliedSpec |-> "empty", ConditionID |-> 0]

\* A declared (embedded) condition: no name, no version token yet.
DeclaredCondition(name, query, region, pid, key) ==
    [Name |-> "", Namespace |-> "", ResourceVersion |-> "",
     Spec |-> [Name |-> name, Query |-> query, Region |-> region,
               ExistingPolicyID |-> pid, APIKey |-> key, APIKeySecret |-> NoSecret],
     Status |-> [AppliedSpec |-> "empty", ConditionID |-> 0]]

CondA == DeclaredCondition("c1", "q1", "", 0, "")
\* as in the controller test: denormalised fields preset by the user
CondB == DeclaredCondition("c2", "q1", "us", 42, "k9")

\* the zero value of nrv1.PolicySpec
EmptyPolicySpec ==
    [Name |-> "", IncidentPreference |-> "", Conditions |-> <<>>,
     APIKey |-> "", APIKeySecret |-> NoSecret, Region |-> ""]

\* the zero value of nrv1.AlertsChannelSpec
EmptyChannelSpec ==
    [Name |-> "", Type |-> "", APIKey |-> "", APIKeySecret |-> NoSecret, Region |-> ""]

-----------------------------------------------------------------------------
(* ComputeHash: FNV-1a, 32 bit, over the printed condition spec.           *)
(* A 32-bit word is kept as <<high 16 bits, low 16 bits>>.                 *)

\* the bytes of the strings that occur in condition specs
StringBytes(s) ==
    CASE s = ""        -> <<>>
      [] s = "c1"      -> <<99, 49>>
      [] s = "c2"      -> <<99, 50>>
      [] s = "q1"      -> <<113, 49>>
      [] s = "q2"      -> <<113, 50>>
      [] s = "us"      -> <<117, 115>>
      [] s = "k1"      -> <<107, 49>>
      [] s = "k9"      -> <<107, 57>>
      [] s = "key"     -> <<107, 101, 121>>
      [] s = "default" -> <<100, 101, 102>>
      [] s = "nr-secret" -> <<110, 114, 45>>
      [] OTHER         -> <<63>>

RECURSIVE DecimalBytes(_)
DecimalBytes(n) ==
    IF n < 10 THEN <<48 + n>> ELSE Append(DecimalBytes(n \div 10), 48 + (n % 10))

\* printer.Fprintf(hasher, "%#v", objectToWrite): every field, in order
SpewBytes(cs) ==
    StringBytes(cs.Name) \o <<44>> \o StringBytes(cs.Query) \o <<44>>
      \o StringBytes(cs.Region) \o <<44>> \o DecimalBytes(cs.ExistingPolicyID) \o <<44>>
      \o StringBytes(cs.APIKey) \o <<44>>
      \o StringBytes(cs.APIKeySecret.Namespace) \o <<47>>
      \o StringBytes(cs.APIKeySecret.Name) \o <<47>>
      \o StringBytes(cs.APIKeySecret.KeyName)

RECURSIVE Xor(_, _, _)
\* bitwise exclusive or of a and b, n bits
Xor(a, b, n) ==
    IF n = 0 THEN 0
    ELSE ((a + b) % 2) + 2 * Xor(a \div 2, b \div 2, n - 1)

\* one FNV-1a step: h = (h XOR byte) * 16777619 mod 2^32, 16777619 = 2^24 + 403
FnvStep(h, byte) ==
    LET hi  == h[1]
        lo  == (h[2] - (h[2] % 256)) + Xor(h[2] % 256, byte, 8)
        pl  == lo * 403
        nlo == pl % 65536
        nhi == (hi * 403 + (pl \div 65536) + (lo % 256) * 256) % 65536
    IN  <<nhi, nlo>>

RECURSIVE FnvFold(_, _, _)
\* (the step is evaluated before the next one starts: the test on n is
\* always true)
FnvFold(h, bytes, i) ==
    IF i > Len(bytes) THEN h
    ELSE LET n == FnvStep(h, bytes[i])
         IN  IF n[1] >= 0 THEN FnvFold(n, bytes, i + 1) ELSE n

\* fnv.New32a() offset basis 2166136261 = 0x811C9DC5
ComputeHash(cs) == FnvFold(<<33052, 40389>>, SpewBytes(cs), 1)

DigitChar == <<"0", "1", "2", "3", "4", "5", "6", "7", "8", "9">>

RECURSIVE Decimal32(_)
\* fmt.Sprintf("%d", h) of the 32-bit word h = <<hi, lo>>
Decimal32(h) ==
    IF h[1] = 0 /\ h[2] < 10 THEN DigitChar[h[2] + 1]
    ELSE LET qhi == h[1] \div 10
             mid == (h[1] % 10) * 65536 + h[2]
             qlo == mid \div 10
             r   == mid % 10
             \* quotient = qhi * 65536 + qlo, qlo may exceed 16 bits
         IN  Decimal32(<<qhi + (qlo \div 65536), qlo % 65536>>) \o DigitChar[r + 1]

\* condition.Name = policy.Name + conditionSpecHash
ConditionName(policyName, cs) == policyName \o Decimal32(ComputeHash(cs))

-----------------------------------------------------------------------------
(* The state of one invocation while it runs.                              *)
(*   p       the in-memory copy of the resource (var policy nrv1.Policy)   *)
(*   stored  the resource in the store          conds  the child resources *)
(*   remote  the remote API's policies          chans  its channels        *)
(*   apiKey  r.apiKey                           calls  the calls made      *)
(*   err     "nil", "err" (an error is returned) or "panic"                *)
(*   injected  a collaborator failed where its contract let it succeed     *)

CallRec(op, name, id, ok) == [op |-> op, name |-> name, id |-> id, ok |-> ok]

Called(c, op, name, id, ok) ==
    [c EXCEPT !.calls = Append(@, CallRec(op, name, id, ok))]

Fail(c) == [c EXCEPT !.err = "err"]
Panic(c) == [c EXCEPT !.err = "panic"]

\* A collaborator call that fails although its contract allowed it to succeed
\* (a dropped connection, a write conflict): the invocation is marked.  A
\* failure the contract prescribes (NotFound, AlreadyExists) leaves no mark.
Fault(c, prescribed) == IF prescribed THEN c ELSE [c EXCEPT !.injected = TRUE]

\* the metadata name of the one Policy resource, req.NamespacedName
PolicyName == "test-policy"
ChannelName == "test-channel"

\* var policy nrv1.Policy
ZeroPolicy ==
    [Name |-> "", Namespace |-> "", Spec |-> EmptyPolicySpec,
     Status |-> [PolicyID |-> 0, AppliedSpec |-> Nil],
     Finalizers |-> <<>>, DeletionTimestamp |-> 0]

-----------------------------------------------------------------------------
(* Outcomes.  A collaborator call may succeed or fail, so every operation  *)
(* below yields the SET of states an invocation can be in after it.        *)

\* continue with Op from every outcome (sequential composition)
Bind(S, Op(_)) == UNION {Op(c) : c \in S}

\* if err != nil { return err }: continue with Op where no error is pending
Then(S, Op(_)) == UNION {IF c.err = "nil" THEN Op(c) ELSE {c} : c \in S}

-----------------------------------------------------------------------------
(* Collaborators: the object store *)

\* what the store keeps of an updated object: an object under deletion whose
\* last finalizer is gone is removed
StoredAfterUpdate(obj) ==
    IF obj.DeletionTimestamp # 0 /\ obj.Finalizers = <<>> THEN <<>> ELSE <<obj>>

\* r.Client.Update(ctx, policy): the whole object (spec, status, finalizers);
\* NotFound when the object is gone, and it may fail otherwise (a conflict)
StoreUpdate(c) ==
    {Fault(Fail(Called(c, "Update", c.p.Name, 0, FALSE)), c.stored = <<>>)}
      \cup (IF c.stored = <<>> THEN {}
            ELSE {[Called(c, "Update", c.p.Name, 0, TRUE)
                     EXCEPT !.stored = StoredAfterUpdate(c.p)]})

HasCondition(conds, name) == \E k \in conds : k.Name = name

\* r.Create(r.ctx, condition): AlreadyExists when the name is taken; the store
\* assigns the version token
StoreCreateCondition(c, cond) ==
    {[Fault(Fail(Called(c, "CreateCondition", cond.Name, 0, FALSE)),
             cond.Name = "" \/ HasCondition(c.conds, cond.Name)) EXCEPT !.cond = cond]}
      \cup (IF cond.Name = "" \/ HasCondition(c.conds, cond.Name) THEN {}
            ELSE LET created == [cond EXCEPT !.ResourceVersion = "1"]
                 IN  {[Called(c, "CreateCondition", cond.Name, 0, TRUE)
                         EXCEPT !.conds = @ \cup {created}, !.cond = created]})

\* r.Client.Update(r.ctx, &condition): NotFound when there is no such child.
\* The caller drops the error, so no error is pending afterwards.
StoreUpdateCondition(c, cond) ==
    {Fault(Called(c, "UpdateCondition", cond.Name, 0, FALSE),
           ~HasCondition(c.conds, cond.Name))}
      \cup (IF ~HasCondition(c.conds, cond.Name) THEN {}
            ELSE {[Called(c, "UpdateCondition", cond.Name, 0, TRUE)
                     EXCEPT !.conds = {k \in @ : k.Name # cond.Name} \cup {cond}]})

\* r.Delete(r.ctx, condition): NotFound when there is no such child
StoreDeleteCondition(c, cond) ==
    {Fault(Fail(Called(c, "DeleteCondition", cond.Name, 0, FALSE)),
           ~HasCondition(c.conds, cond.Name))}
      \cup (IF ~HasCondition(c.conds, cond.Name) THEN {}
            ELSE {[Called(c, "DeleteCondition", cond.Name, 0, TRUE)
                     EXCEPT !.conds = {k \in @ : k.Name # cond.Name}]})

-----------------------------------------------------------------------------
(* Collaborators: the remote alerting API *)

RemoteIDs(remote) == {r.ID : r \in remote}

\* the API's name filter is a substring search
NameMatchesFilter(name, filter) ==
    name = filter \/ (filter = "pa" /\ name = "pab")

RECURSIVE SortedByID(_)
SortedByID(S) ==
    IF S = {} THEN <<>>
    ELSE LET m == CHOOSE x \in S : \A y \in S : x.ID <= y.ID
         IN  <<m>> \o SortedByID(S \ {m})

\* r.Alerts.ListPolicies(alertParams)
ListPolicies(remote, filter) ==
    SortedByID({r \in remote : NameMatchesFilter(r.Name, filter)})

-----------------------------------------------------------------------------
(* PolicyReconciler *)

\* getAPIKeyOrSecret: the inline key, else the secret's field, else ""
\* (a failed secret Get leaves apiKeySecret.Data nil, so the field reads "")
getAPIKeyOrSecret(c) ==
    LET spec == c.p.Spec IN
    IF spec.APIKey # "" THEN {[c EXCEPT !.apiKey = spec.APIKey]}
    ELSE IF spec.APIKeySecret # NoSecret
         THEN {[Called(c, "GetSecret", spec.APIKeySecret.Name, 0, TRUE)
                  EXCEPT !.apiKey = SecretData],
               [Called(c, "GetSecret", spec.APIKeySecret.Name, 0, FALSE)
                  EXCEPT !.apiKey = "", !.injected = TRUE]}
         ELSE {[c EXCEPT !.apiKey = ""]}

\* faulty variant: the hash is taken after the parent's fields were copied down
createConditionHashedLate(c, condition) ==
    LET copied == [condition EXCEPT
                    !.Namespace = c.p.Namespace,
                    !.Status = ClearedConditionStatus,
                    !.Spec.Region = c.p.Spec.Region,
                    !.Spec.ExistingPolicyID = c.p.Status.PolicyID,
                    !.Spec.APIKey = c.p.Spec.APIKey,
                    !.Spec.APIKeySecret = c.p.Spec.APIKeySecret]
    IN  StoreCreateCondition(c, [copied EXCEPT
                                   !.Name = ConditionName(c.p.Name, copied.Spec)])

\* createCondition: name by content hash, denormalised fields copied down from
\* the parent, status cleared, then created in the store
createCondition(c, condition) ==
    LET named == [condition EXCEPT
                    !.Name = ConditionName(c.p.Name, condition.Spec),
                    !.Namespace = c.p.Namespace,
                    !.Status = ClearedConditionStatus,
                    !.Spec.Region = c.p.Spec.Region,
                    !.Spec.ExistingPolicyID = c.p.Status.PolicyID,
                    !.Spec.APIKey = c.p.Spec.APIKey,
                    !.Spec.APIKeySecret = c.p.Spec.APIKeySecret]
    IN  StoreCreateCondition(c, named)

\* one iteration of the loop of createOrUpdateConditions, for index i
conditionIteration(c, i) ==
    LET condition == c.p.Spec.Conditions[i]
        applied   == c.p.Status.AppliedSpec[1].Conditions
    IN  IF condition.ResourceVersion # ""
        THEN IF i > Len(applied)
             THEN {Panic(c)}    \* AppliedSpec.Conditions[i]: index out of range
             ELSE IF condition # applied[i]
                  THEN Bind(StoreUpdateCondition(c, condition),
                            LAMBDA c1 : {[c1 EXCEPT !.p.Spec.Conditions[i] = condition]})
                  ELSE {c}
        ELSE Then(createCondition(c, condition),
                  LAMBDA c1 : {[c1 EXCEPT !.p.Spec.Conditions[i] = c1.cond]})

\* the indices the loop of createOrUpdateConditions gets to: it returns at
\* the end of its first iteration
conditionsVisited(n) == IF n >= 1 THEN 1 ELSE 0

RECURSIVE conditionsLoop(_, _, _)
conditionsLoop(c, i, n) ==
    IF i > n THEN {c}
    ELSE Then(conditionIteration(c, i), LAMBDA c1 : conditionsLoop(c1, i + 1, n))

createOrUpdateConditions(c) ==
    IF c.p.Status.AppliedSpec = Nil
    THEN {Panic(c)}             \* policy.Status.AppliedSpec.Conditions on nil
    ELSE IF c.p.Spec.Conditions = c.p.Status.AppliedSpec[1].Conditions
         THEN {c}
         ELSE conditionsLoop(c, 1, conditionsVisited(Len(c.p.Spec.Conditions)))

\* policy.Status.AppliedSpec = &policy.Spec; PolicyID = id; r.Client.Update
persistStatus(c, id) ==
    StoreUpdate([c EXCEPT !.p.Status.AppliedSpec = Ptr(c.p.Spec),
                          !.p.Status.PolicyID = id])

\* r.Alerts.CreatePolicy(APIPolicy): the API hands out the next identifier
CreatePolicyCall(c) ==
    {Fault(Fail(Called(c, "CreatePolicy", c.p.Spec.Name, 0, FALSE)), FALSE)}
      \cup (IF c.nextID > MaxRemoteID THEN {}
            ELSE {[Called(c, "CreatePolicy", c.p.Spec.Name, c.nextID, TRUE) EXCEPT
                     !.remote = @ \cup {[ID |-> c.nextID, Name |-> c.p.Spec.Name,
                                         Origin |-> "operator"]},
                     !.nextID = @ + 1,
                     !.ret = c.nextID]})

\* faulty variant: the error of CreatePolicy is dropped and the status persisted
createPolicyErrorDropped(c) ==
    Bind(CreatePolicyCall(c),
         LAMBDA c1 : persistStatus([c1 EXCEPT !.err = "nil"], c1.ret))

createPolicy(c) ==
    Then(CreatePolicyCall(c),
         LAMBDA c1 :
            Then(createOrUpdateConditions([c1 EXCEPT !.p.Status.PolicyID = c1.ret]),
                 LAMBDA c2 : persistStatus(c2, c2.p.Status.PolicyID)))

\* r.Alerts.UpdatePolicy(APIPolicy) with APIPolicy.ID = policy.Status.PolicyID:
\* an error when there is no such policy; the updated policy keeps its ID
UpdatePolicyCall(c) ==
    LET id == c.p.Status.PolicyID IN
    {Fault(Fail(Called(c, "UpdatePolicy", c.p.Spec.Name, id, FALSE)),
           id \notin RemoteIDs(c.remote))}
      \cup (IF id \notin RemoteIDs(c.remote) THEN {}
            ELSE {[Called(c, "UpdatePolicy", c.p.Spec.Name, id, TRUE)
                     EXCEPT !.ret = id]})

updatePolicy(c) ==
    Then(UpdatePolicyCall(c),
         LAMBDA c1 :
            Then(createOrUpdateConditions(c1),
                 LAMBDA c2 : persistStatus(c2, c1.ret)))

\* faulty variant: the first listed policy is adopted without comparing names
firstListedID(listed, name) == IF listed = <<>> THEN 0 ELSE listed[1].ID

\* the identifier checkForExistingPolicy adopts from a listing: the first
\* entry whose name is exactly the policy's, 0 when there is none
existingPolicyID(listed, name) ==
    LET matches == SelectSeq(listed, LAMBDA e : e.Name = name)
    IN  IF matches = <<>> THEN 0 ELSE matches[1].ID

\* a failed listing is logged and otherwise ignored
checkForExistingPolicy(c) ==
    IF c.p.Status.PolicyID # 0 THEN {c}
    ELSE LET found == existingPolicyID(ListPolicies(c.remote, c.p.Spec.Name),
                                       c.p.Spec.Name)
             listed == Called(c, "ListPolicies", c.p.Spec.Name, found, TRUE)
         IN  {Fault(Called(c, "ListPolicies", c.p.Spec.Name, 0, FALSE), FALSE),
              IF found # 0 THEN [listed EXCEPT !.p.Status.PolicyID = found]
              ELSE listed}

deleteCondition(c, condition) == StoreDeleteCondition(c, condition)

RECURSIVE deleteConditions(_, _, _)
\* for _, condition := range policy.Status.AppliedSpec.Conditions
deleteConditions(c, list, i) ==
    IF i > Len(list) THEN {c}
    ELSE Then(deleteCondition(c, list[i]),
              LAMBDA c1 : deleteConditions(c1, list, i + 1))

\* faulty variant: the error of DeletePolicy is logged and not returned
deletePolicyErrorLogged(c) ==
    LET id == c.p.Status.PolicyID IN
    {Fault(Called(c, "DeletePolicy", c.p.Spec.Name, id, FALSE),
           id \notin RemoteIDs(c.remote))}
      \cup (IF id \notin RemoteIDs(c.remote) THEN {}
            ELSE {[Called(c, "DeletePolicy", c.p.Spec.Name, id, TRUE)
                     EXCEPT !.remote = {r \in @ : r.ID # id}]})

\* r.Alerts.DeletePolicy(policy.Status.PolicyID): an error when there is no
\* such policy
deleteNewRelicAlertPolicy(c) ==
    LET id == c.p.Status.PolicyID IN
    {Fault(Fail(Called(c, "DeletePolicy", c.p.Spec.Name, id, FALSE)),
           id \notin RemoteIDs(c.remote))}
      \cup (IF id \notin RemoteIDs(c.remote) THEN {}
            ELSE {[Called(c, "DeletePolicy", c.p.Spec.Name, id, TRUE)
                     EXCEPT !.remote = {r \in @ : r.ID # id}]})

\* faulty variant: the remote policy is deleted before the child conditions
deletePolicyParentFirst(c) ==
    IF ~containsString(c.p.Finalizers, PolicyFinalizer) THEN {c}
    ELSE IF c.p.Status.PolicyID = 0
         THEN {[c EXCEPT !.p.Finalizers = removeString(@, PolicyFinalizer)]}
         ELSE IF c.p.Status.AppliedSpec = Nil THEN {Panic(c)}
         ELSE Then(deleteNewRelicAlertPolicy(c),
                   LAMBDA c1 :
                      Then(deleteConditions(c1, c1.p.Status.AppliedSpec[1].Conditions, 1),
                           LAMBDA c2 :
                              StoreUpdate([c2 EXCEPT !.p.Finalizers =
                                             removeString(@, PolicyFinalizer)])))

deletePolicy(c) ==
    IF ~containsString(c.p.Finalizers, PolicyFinalizer) THEN {c}
    ELSE IF c.p.Status.PolicyID = 0
         THEN \* the finalizer is dropped from the in-memory copy only
              {[c EXCEPT !.p.Finalizers = removeString(@, PolicyFinalizer)]}
         ELSE IF c.p.Status.AppliedSpec = Nil THEN {Panic(c)}
         ELSE Then(deleteConditions(c, c.p.Status.AppliedSpec[1].Conditions, 1),
                   LAMBDA c1 :
                      Then(deleteNewRelicAlertPolicy(c1),
                           LAMBDA c2 :
                              StoreUpdate([c2 EXCEPT !.p.Finalizers =
                                             removeString(@, PolicyFinalizer)])))

\* faulty variant: the comparison of spec and applied spec never finds them equal
specNeverApplied(p) == FALSE

\* reflect.DeepEqual(&policy.Spec, policy.Status.AppliedSpec)
specApplied(p) == p.Status.AppliedSpec = Ptr(p.Spec)

\* faulty variant: the error of the Get is returned
fetchFailedReturnsError(c) == c

\* what Reconcile returns when the Get of the resource failed: nil, whatever
\* the error was
fetchFailed(c) == [c EXCEPT !.err = "nil"]

\* faulty variant: the policy is created whether or not it has an identifier
createAlways(c) == createPolicy(c)

\* Reconcile, lines 109-119: update when the policy has an identifier
createOrUpdatePolicy(c) ==
    IF c.p.Status.PolicyID # 0 THEN updatePolicy(c) ELSE createPolicy(c)

\* faulty variant: the finalizer is not registered before the policy is synced
reconcilePhaseNoFinalizer(c) ==
    IF c.p.DeletionTimestamp = 0
    THEN IF specApplied(c.p) THEN {c}
         ELSE Bind(checkForExistingPolicy(c), createOrUpdatePolicy)
    ELSE deletePolicy(c)

\* faulty variant: after the deletion step the invocation goes on with the sync
reconcilePhaseFallsThrough(c) ==
    LET c1 == IF containsString(c.p.Finalizers, PolicyFinalizer) THEN c
              ELSE [c EXCEPT !.p.Finalizers = Append(@, PolicyFinalizer)]
        sync(c2) == IF specApplied(c2.p) THEN {c2}
                    ELSE Bind(checkForExistingPolicy(c2), createOrUpdatePolicy)
    IN  IF c.p.DeletionTimestamp = 0 THEN sync(c1)
        ELSE Then(deletePolicy(c), sync)

\* the lifecycle phase of Reconcile, lines 89-148
reconcilePhase(c) ==
    IF c.p.DeletionTimestamp = 0
    THEN LET c1 == IF containsString(c.p.Finalizers, PolicyFinalizer) THEN c
                   ELSE [c EXCEPT !.p.Finalizers = Append(@, PolicyFinalizer)]
         IN  IF specApplied(c1.p) THEN {c1}
             ELSE Bind(checkForExistingPolicy(c1), createOrUpdatePolicy)
    ELSE deletePolicy(c)

\* r.AlertClientFunc(r.apiKey, policy.Spec.Region) and its error check
AlertClientFunc(c) ==
    {Called(c, "AlertClientFunc", c.apiKey, 0, TRUE),
     Fault(Fail(Called(c, "AlertClientFunc", c.apiKey, 0, FALSE)), FALSE)}

\* faulty variant: a blank key is not rejected
blankKeyUnchecked(c) == c

\* if r.apiKey == "" { return errors.New("api key is blank") }
blankKeyCheck(c) == IF c.apiKey = "" THEN Fail(c) ELSE c

\* credentials and client, lines 76-87
withAlertsClient(c) ==
    Then(Then({blankKeyCheck(c1) : c1 \in getAPIKeyOrSecret(c)}, AlertClientFunc),
         reconcilePhase)

\* r.Client.Get(r.ctx, req.NamespacedName, &policy): not found when the
\* object is gone, and it may fail otherwise
StoreGet(c, name) ==
    {Fault(Fail(Called(c, "Get", name, 0, FALSE)), c.stored = <<>>)}
      \cup (IF c.stored = <<>> THEN {}
            ELSE {[Called(c, "Get", name, 0, TRUE) EXCEPT !.p = c.stored[1]]})

\* faulty variant: the error of the Get is only logged and the invocation goes
\* on with the zero-valued policy
ReconcileOnFetchError(c) ==
    Bind(StoreGet(c, PolicyName),
         LAMBDA c1 : withAlertsClient([c1 EXCEPT !.err = "nil"]))

\* PolicyReconciler.Reconcile, from the state c at entry
Reconcile(c) ==
    UNION {IF c1.err # "nil" THEN {fetchFailed(c1)}
           ELSE withAlertsClient(c1) : c1 \in StoreGet(c, PolicyName)}

-----------------------------------------------------------------------------
(* AlertsChannelReconciler *)

\* var alertsChannel nrv1.AlertsChannel
ZeroChannel ==
    [Name |-> "", Namespace |-> "", Spec |-> EmptyChannelSpec,
     Status |-> [ChannelID |-> 0, AppliedSpec |-> Nil],
     Finalizers |-> <<>>, DeletionTimestamp |-> 0]

\* getAPIKeyOrSecret of the channel reconciler: "" when the secret Get fails
channelGetAPIKeyOrSecret(c) ==
    LET spec == c.p.Spec IN
    IF spec.APIKey # "" THEN {[c EXCEPT !.apiKey = spec.APIKey]}
    ELSE IF spec.APIKeySecret # NoSecret
         THEN {[Called(c, "GetSecret", spec.APIKeySecret.Name, 0, FALSE)
                  EXCEPT !.apiKey = "", !.injected = TRUE],
               [Called(c, "GetSecret", spec.APIKeySecret.Name, 0, TRUE)
                  EXCEPT !.apiKey = SecretData]}
         ELSE {[c EXCEPT !.apiKey = ""]}

\* r.Alerts.DeleteChannel(id), made only when ChannelID != 0; its error is
\* logged and then overwritten by the Update's
DeleteChannelCall(c) ==
    LET id == c.p.Status.ChannelID IN
    IF id = 0 THEN {c}
    ELSE {Fault(Called(c, "DeleteChannel", c.p.Spec.Name, id, FALSE), id \notin c.chans)}
           \cup (IF id \notin c.chans THEN {}
                 ELSE {[Called(c, "DeleteChannel", c.p.Spec.Name, id, TRUE)
                          EXCEPT !.chans = @ \ {id}]})

deleteAlertsChannel(c) ==
    Bind(DeleteChannelCall(c),
         LAMBDA c1 : StoreUpdate([c1 EXCEPT !.p.Finalizers =
                                    removeString(@, ChannelFinalizer)]))

\* r.Alerts.CreateChannel(APIChannel)
CreateChannelCall(c) ==
    {Fault(Fail(Called(c, "CreateChannel", c.p.Spec.Name, 0, FALSE)), FALSE)}
      \cup (IF c.nextID > MaxRemoteID THEN {}
            ELSE {[Called(c, "CreateChannel", c.p.Spec.Name, c.nextID, TRUE) EXCEPT
                     !.chans = @ \cup {c.nextID},
                     !.nextID = @ + 1,
                     !.ret = c.nextID]})

createAlertsChannel(c) ==
    Then(CreateChannelCall(c),
         LAMBDA c1 : StoreUpdate([c1 EXCEPT !.p.Status.ChannelID = c1.ret,
                                            !.p.Status.AppliedSpec = Ptr(c1.p.Spec)]))

\* func updateAlertsChannel: return nil
updateAlertsChannel(c) == {c}

\* func checkForExistingAlertsChannel: empty body
checkForExistingAlertsChannel(c) == {c}

\* faulty variant: the channel is created whether or not it has an identifier
createChannelAlways(c) == createAlertsChannel(c)

\* Reconcile, lines 103-115
createOrUpdateChannel(c) ==
    IF c.p.Status.ChannelID # 0 THEN updateAlertsChannel(c) ELSE createAlertsChannel(c)

\* the lifecycle phase of the channel's Reconcile, lines 80-117: the deletion
\* branch returns only on error
channelPhase(c) ==
    Then(IF c.p.DeletionTimestamp = 0
         THEN IF containsString(c.p.Finalizers, ChannelFinalizer) THEN {c}
              ELSE {[c EXCEPT !.p.Finalizers = Append(@, ChannelFinalizer)]}
         ELSE deleteAlertsChannel(c),
         LAMBDA c1 :
            IF specApplied(c1.p) THEN {c1}
            ELSE Bind(checkForExistingAlertsChannel(c1), createOrUpdateChannel))

channelWithAlertsClient(c) ==
    Then(Then({blankKeyCheck(c1) : c1 \in channelGetAPIKeyOrSecret(c)}, AlertClientFunc),
         channelPhase)

\* AlertsChannelReconciler.Reconcile, from the state c at entry
ChannelReconcile(c) ==
    UNION {IF c1.err # "nil" THEN {fetchFailed(c1)}
           ELSE channelWithAlertsClient(c1) : c1 \in StoreGet(c, ChannelName)}

-----------------------------------------------------------------------------
(* Initial states: one freshly declared resource, a policy or a channel,   *)
(* with no status or with the empty applied spec the controller tests      *)
(* declare; the remote account may already hold policies made elsewhere.   *)

\* (APIKey, APIKeySecret) as a user may declare them
DeclaredCredentials == {<<"k1", NoSecret>>, <<"", SecretRef>>, <<"", NoSecret>>}

DeclaredConditionLists == {<<>>, <<CondA>>, <<CondA, CondB>>}

DeclaredPolicySpecs ==
    {[Name |-> "pa", IncidentPreference |-> "PER_POLICY", Conditions |-> cs,
      APIKey |-> cr[1], APIKeySecret |-> cr[2], Region |-> "us"] :
        cs \in DeclaredConditionLists, cr \in DeclaredCredentials}

DeclaredChannelSpecs ==
    {[Name |-> "ch", Type |-> "email", APIKey |-> cr[1], APIKeySecret |-> cr[2],
      Region |-> "us"] : cr \in DeclaredCredentials}

\* metadata.finalizers as a manifest may declare them: none, the
\* reconciler's own, or one that another controller looks after
DeclaredFinalizers(own) == {<<>>, <<own>>, <<OtherFinalizer>>}

DeclaredPolicies ==
    {[Name |-> PolicyName, Namespace |-> "default", Spec |-> s,
      Status |-> [PolicyID |-> 0, AppliedSpec |-> a],
      Finalizers |-> f, DeletionTimestamp |-> 0] :
        s \in DeclaredPolicySpecs, a \in {Nil, Ptr(EmptyPolicySpec)},
        f \in DeclaredFinalizers(PolicyFinalizer)}

DeclaredChannels ==
    {[Name |-> ChannelName, Namespace |-> "default", Spec |-> s,
      Status |-> [ChannelID |-> 0, AppliedSpec |-> a],
      Finalizers |-> f, DeletionTimestamp |-> 0] :
        s \in DeclaredChannelSpecs, a \in {Nil, Ptr(EmptyChannelSpec)},
        f \in DeclaredFinalizers(ChannelFinalizer)}

\* policies of the remote account that were not made by the operator
ForeignPolicies ==
    {{},
     {[ID |-> 1, Name |-> "pab", Origin |-> "other"]},
     {[ID |-> 1, Name |-> "pab", Origin |-> "other"],
      [ID |-> 2, Name |-> "pa", Origin |-> "other"]}}

\* the requests the trigger may deliver concurrently: two policies that
\* declare different API keys and regions
Requests == {"policy-a", "policy-b"}

RequestedPolicy(w) ==
    [Name |-> w, Namespace |-> "default",
     Spec |-> [Name |-> w, IncidentPreference |-> "PER_POLICY", Conditions |-> <<>>,
               APIKey |-> IF w = "policy-a" THEN "key-a" ELSE "key-b",
               APIKeySecret |-> NoSecret,
               Region |-> IF w = "policy-a" THEN "us" ELSE "eu"],
     Status |-> [PolicyID |-> 0, AppliedSpec |-> Nil],
     Finalizers |-> <<>>, DeletionTimestamp |-> 0]

\* no invocation of a worker is running; pc is the line of Reconcile the
\* worker is about to execute, alertsClient its local variable
WorkerAtRest == [pc |-> "rest", alertsClient |-> Nil, runs |-> 0]

NoWorkers ==
    /\ rApiKey = ""
    /\ rAlerts = Nil
    /\ worker = [w \in Requests |-> WorkerAtRest]
    /\ remoteCalls = {}
    /\ logged = {}

NoInvocation ==
    [kind |-> "none", res |-> "ok", calls |-> <<>>, pre |-> <<>>, preRemote |-> {},
     preConds |-> {}, preChans |-> {}, injected |-> FALSE]

Init ==
    /\ \/ /\ policy \in {<<p>> : p \in DeclaredPolicies}
          /\ channel = <<>>
          /\ watched = "policy"
          /\ remotePolicies \in ForeignPolicies
       \/ /\ channel \in {<<ch>> : ch \in DeclaredChannels}
          /\ policy = <<>>
          /\ watched = "channel"
          /\ remotePolicies = {}
    /\ conditions = {}
    /\ remoteChannels = {}
    /\ nextID = Cardinality(remotePolicies) + 1
    /\ edits = 0
    /\ last = NoInvocation
    /\ NoWorkers

-----------------------------------------------------------------------------
(* Actions *)

Entry(obj, zero) ==
    [p |-> zero, stored |-> obj, conds |-> conditions, remote |-> remotePolicies,
     chans |-> remoteChannels, nextID |-> nextID, calls |-> <<>>, err |-> "nil",
     apiKey |-> "", cond |-> CondA, ret |-> 0, injected |-> FALSE]

Result(c) == IF c.err = "nil" THEN "ok" ELSE c.err

\* no invocation is running or waiting for its result to be taken
Idle == last.kind = "none"

\* one invocation of PolicyReconciler.Reconcile, for the request of the
\* declared policy
ReconcilePolicy ==
    /\ Idle
    /\ watched = "policy"
    /\ \E c \in Reconcile(Entry(policy, ZeroPolicy)) :
            /\ policy' = c.stored
            /\ conditions' = c.conds
            /\ remotePolicies' = c.remote
            /\ nextID' = c.nextID
            /\ last' = [kind |-> "policy", res |-> Result(c), calls |-> c.calls,
                        pre |-> policy, preRemote |-> remotePolicies,
                        preConds |-> conditions, preChans |-> {},
                        injected |-> c.injected]
    /\ UNCHANGED <<channel, remoteChannels, edits, watched, workerVars>>

\* one invocation of AlertsChannelReconciler.Reconcile, for the request of
\* the declared channel
ReconcileChannel ==
    /\ Idle
    /\ watched = "channel"
    /\ \E c \in ChannelReconcile(Entry(channel, ZeroChannel)) :
            /\ channel' = c.stored
            /\ remoteChannels' = c.chans
            /\ nextID' = c.nextID
            /\ last' = [kind |-> "channel", res |-> Result(c), calls |-> c.calls,
                        pre |-> channel, preRemote |-> {},
                        preConds |-> {}, preChans |-> remoteChannels,
                        injected |-> c.injected]
    /\ UNCHANGED <<policy, conditions, remotePolicies, edits, watched, workerVars>>

\* the trigger takes the invocation's result (and may deliver the request
\* again)
ResultTaken ==
    /\ ~Idle
    /\ last' = NoInvocation
    /\ UNCHANGED <<policy, channel, conditions, remotePolicies, remoteChannels,
                   nextID, edits, watched, workerVars>>

Toggle(v, a, b) == IF v = a THEN b ELSE a

UserEdit(obj) ==
    /\ Idle
    /\ obj # <<>>
    /\ obj[1].DeletionTimestamp = 0
    /\ edits < MaxEdits
    /\ edits' = edits + 1
    /\ UNCHANGED <<last, watched, workerVars>>

\* the user changes the policy's incident preference
UserSetIncidentPreference ==
    /\ UserEdit(policy)
    /\ policy' = <<[policy[1] EXCEPT !.Spec.IncidentPreference =
                                       Toggle(@, "PER_POLICY", "PER_CONDITION")]>>
    /\ UNCHANGED <<channel, conditions, remotePolicies, remoteChannels, nextID>>

\* the user changes the query of a declared condition in place
UserEditCondition ==
    /\ UserEdit(policy)
    /\ \E i \in 1..Len(policy[1].Spec.Conditions) :
         policy' = <<[policy[1] EXCEPT !.Spec.Conditions[i].Spec.Query =
                                         Toggle(@, "q1", "q2")]>>
    /\ UNCHANGED <<channel, conditions, remotePolicies, remoteChannels, nextID>>

\* the user declares one more condition
UserAppendCondition ==
    /\ UserEdit(policy)
    /\ Len(policy[1].Spec.Conditions) < 2
    /\ policy' = <<[policy[1] EXCEPT !.Spec.Conditions =
                      Append(@, IF Len(@) = 0 THEN CondA ELSE CondB)]>>
    /\ UNCHANGED <<channel, conditions, remotePolicies, remoteChannels, nextID>>

\* the user changes the channel's type
UserEditChannel ==
    /\ UserEdit(channel)
    /\ channel' = <<[channel[1] EXCEPT !.Spec.Type = Toggle(@, "email", "slack")]>>
    /\ UNCHANGED <<policy, conditions, remotePolicies, remoteChannels, nextID>>

\* the store's Delete of a resource: it is removed at once when it carries no
\* finalizer, and marked with a deletion timestamp otherwise
MarkDeleted(obj) ==
    IF obj.Finalizers = <<>> THEN <<>> ELSE <<[obj EXCEPT !.DeletionTimestamp = 1]>>

UserDeletePolicy ==
    /\ Idle
    /\ policy # <<>>
    /\ policy[1].DeletionTimestamp = 0
    /\ policy' = MarkDeleted(policy[1])
    /\ UNCHANGED <<channel, conditions, remotePolicies, remoteChannels, nextID, edits,
                   last, watched, workerVars>>

UserDeleteChannel ==
    /\ Idle
    /\ channel # <<>>
    /\ channel[1].DeletionTimestamp = 0
    /\ channel' = MarkDeleted(channel[1])
    /\ UNCHANGED <<policy, conditions, remotePolicies, remoteChannels, nextID, edits,
                   last, watched, workerVars>>

Next ==
    \/ ReconcilePolicy
    \/ ReconcileChannel
    \/ ResultTaken
    \/ UserSetIncidentPreference
    \/ UserEditCondition
    \/ UserAppendCondition
    \/ UserEditChannel
    \/ UserDeletePolicy
    \/ UserDeleteChannel

Spec == Init /\ [][Next]_vars

-----------------------------------------------------------------------------
(* Interleaved invocations.  The trigger may run Reconcile for different   *)
(* requests at the same time on the one PolicyReconciler value, whose      *)
(* fields r.apiKey and r.Alerts every invocation assigns and reads without *)
(* synchronisation.  Each action below is one statement of Reconcile that  *)
(* touches a field; a racing read yields one of the values written.        *)

storeVars == <<policy, channel, conditions, remotePolicies, remoteChannels, nextID,
               edits, watched, last>>

At(w, pc) == worker[w].pc = pc
Goto(w, pc) == worker' = [worker EXCEPT ![w].pc = pc]

\* the client AlertClientFunc(apiKey, region) builds
AlertsClientFor(apiKey, region) == [apiKey |-> apiKey, region |-> region]

\* line 63: the request is delivered and its policy fetched
WorkerGet(w) ==
    /\ At(w, "rest")
    /\ worker[w].runs < MaxRuns
    /\ worker' = [worker EXCEPT ![w] = [pc |-> "resolve", alertsClient |-> Nil,
                                        runs |-> @.runs + 1]]
    /\ UNCHANGED <<rApiKey, rAlerts, remoteCalls, logged, storeVars>>

\* line 76: r.apiKey = r.getAPIKeyOrSecret(policy)
WorkerResolveKey(w) ==
    /\ At(w, "resolve")
    /\ \E c \in getAPIKeyOrSecret([p |-> RequestedPolicy(w), apiKey |-> "",
                                    calls |-> <<>>, injected |-> FALSE]) :
            rApiKey' = c.apiKey
    /\ Goto(w, "build")
    /\ UNCHANGED <<rAlerts, remoteCalls, logged, storeVars>>

\* lines 78-86: the blank check of r.apiKey, then
\* alertsClient, errAlertsClient := r.AlertClientFunc(r.apiKey, policy.Spec.Region)
WorkerBuildClient(w) ==
    /\ At(w, "build")
    /\ IF rApiKey = "" THEN Goto(w, "rest")
       ELSE \E ok \in BOOLEAN :
              worker' = [worker EXCEPT ![w].pc = IF ok THEN "store" ELSE "rest",
                            ![w].alertsClient =
                                IF ok THEN Ptr(AlertsClientFor(rApiKey,
                                                   RequestedPolicy(w).Spec.Region))
                                ELSE Nil]
    /\ UNCHANGED <<rApiKey, rAlerts, remoteCalls, logged, storeVars>>

\* line 87: r.Alerts = alertsClient
WorkerStoreClient(w) ==
    /\ At(w, "store")
    /\ rAlerts' = worker[w].alertsClient
    /\ Goto(w, "list")
    /\ UNCHANGED <<rApiKey, remoteCalls, logged, storeVars>>

\* a call through r.Alerts; its error branch logs PartialAPIKey(r.apiKey)
RemoteCallThroughField(w, op, ok) ==
    /\ remoteCalls' = remoteCalls \cup {[for |-> w, op |-> op, client |-> rAlerts[1]]}
    /\ logged' = IF ok THEN logged ELSE logged \cup {[for |-> w, key |-> rApiKey]}

\* checkForExistingPolicy, lines 386-393: r.Alerts.ListPolicies; an error is
\* logged and the invocation goes on
WorkerListPolicies(w) ==
    /\ At(w, "list")
    /\ \E ok \in BOOLEAN : RemoteCallThroughField(w, "ListPolicies", ok)
    /\ Goto(w, "create")
    /\ UNCHANGED <<rApiKey, rAlerts, storeVars>>

\* createPolicy, lines 154-162: r.Alerts.CreatePolicy; the invocation returns
\* after it (with the error, or after persisting the status)
WorkerCreatePolicy(w) ==
    /\ At(w, "create")
    /\ \E ok \in BOOLEAN : RemoteCallThroughField(w, "CreatePolicy", ok)
    /\ Goto(w, "rest")
    /\ UNCHANGED <<rApiKey, rAlerts, storeVars>>

InitConcurrent ==
    /\ policy = <<>>
    /\ channel = <<>>
    /\ watched = "policy"
    /\ conditions = {}
    /\ remotePolicies = {}
    /\ remoteChannels = {}
    /\ nextID = 1
    /\ edits = 0
    /\ last = NoInvocation
    /\ NoWorkers

NextConcurrent ==
    \E w \in Requests :
        \/ WorkerGet(w)
        \/ WorkerResolveKey(w)
        \/ WorkerBuildClient(w)
        \/ WorkerStoreClient(w)
        \/ WorkerListPolicies(w)
        \/ WorkerCreatePolicy(w)

SpecConcurrent == InitConcurrent /\ [][NextConcurrent]_vars

-----------------------------------------------------------------------------
(* Reading the last invocation *)

\* the stored spec is deeply equal to the stored applied spec
SpecEqualsApplied(obj) == obj.Status.AppliedSpec # <<>> /\ obj.Status.AppliedSpec[1] = obj.Spec

Calls == last.calls
CallIdx == 1..Len(Calls)
Count(op) == Cardinality({i \in CallIdx : Calls[i].op = op})

\* calls of the remote alerting API, and writes of the object store
RemoteCallOps ==
    {"ListPolicies", "CreatePolicy", "UpdatePolicy", "DeletePolicy",
     "CreateChannel", "DeleteChannel"}
StoreWriteOps == {"Update", "CreateCondition", "UpdateCondition", "DeleteCondition"}

NoRemoteCalls == \A i \in CallIdx : Calls[i].op \notin RemoteCallOps
NoStoreWrites == \A i \in CallIdx : Calls[i].op \notin StoreWriteOps
AllCallsOK == \A i \in CallIdx : Calls[i].ok

Invoked == last.kind \in {"policy", "channel"}
\* the resource as the store holds it after the invocation, and before it
StoredNow == IF last.kind = "policy" THEN policy ELSE channel
Pre == last.pre[1]

\* the resource was fetched; the alerts client was built
Fetched == Calls # <<>> /\ Calls[1].op = "Get" /\ Calls[1].ok
ClientBuilt == \E i \in CallIdx : Calls[i].op = "AlertClientFunc" /\ Calls[i].ok

\* the invocation ran on a stored policy that is not marked for deletion
OnLivePolicy ==
    last.kind = "policy" /\ last.pre # <<>> /\ Pre.DeletionTimestamp = 0
OnDeletingPolicy ==
    last.kind = "policy" /\ last.pre # <<>> /\ Pre.DeletionTimestamp # 0

-----------------------------------------------------------------------------
(* C1 *)

Converged ==
    Invoked /\ last.pre # <<>> /\ Pre.DeletionTimestamp = 0 /\ SpecEqualsApplied(Pre)

\* C1 as stated (convergence idempotence): every invocation on a policy or a
\* channel that is not marked for deletion and whose stored spec equals its
\* stored applied spec returns success and makes no remote alerting-API call
\* and no store write.  The credentials are resolved and the client is built
\* before the comparison (lines 76-87), so a converged resource whose secret
\* lookup or client factory fails gets an error back.
C1_ConvergedAlwaysSucceeds ==
    Converged => (last.res = "ok" /\ NoRemoteCalls /\ NoStoreWrites)

\* C1 amended: such an invocation makes no remote alerting-API call and no
\* store write and leaves the stored resource as it was, however often it is
\* repeated; it returns success unless credential resolution or the client
\* factory failed (success when the client was built, and when the fetch
\* itself failed).
C1_ConvergedIsNoOp ==
    Converged
        => /\ NoRemoteCalls
           /\ NoStoreWrites
           /\ StoredNow = last.pre
           /\ (ClientBuilt \/ ~Fetched) => last.res = "ok"

\* a converged policy with a remote identifier was reconciled again
C1_Witness ==
    /\ OnLivePolicy /\ SpecEqualsApplied(Pre) /\ Pre.Status.PolicyID # 0
    /\ ClientBuilt /\ last.res = "ok"

\* a converged channel was reconciled again
C1_WitnessChannel ==
    /\ last.kind = "channel" /\ last.pre # <<>> /\ Pre.DeletionTimestamp = 0
    /\ SpecEqualsApplied(Pre) /\ Pre.Status.ChannelID # 0
    /\ ClientBuilt /\ last.res = "ok"

-----------------------------------------------------------------------------
(* C2 *)

FreshPolicy ==
    /\ OnLivePolicy
    /\ Pre.Status.PolicyID = 0
    /\ Pre.Status.AppliedSpec = Nil
    /\ \A r \in last.preRemote : r.Name # Pre.Spec.Name

\* C2 (create sets identifier): reconciling a freshly declared policy with no
\* prior status (PolicyID = 0, AppliedSpec nil, no remote policy of its name),
\* with usable credentials and no collaborator failing, makes exactly one
\* CreatePolicy call, succeeds, and stores the identifier that call returned.
C2_CreateSetsIdentifier ==
    (FreshPolicy /\ ClientBuilt /\ AllCallsOK)
        => /\ Count("CreatePolicy") = 1
           /\ last.res = "ok"
           /\ policy # <<>>
           /\ policy[1].Status.PolicyID # 0
           /\ \E i \in CallIdx : /\ Calls[i].op = "CreatePolicy"
                                 /\ Calls[i].id = policy[1].Status.PolicyID

\* the same for a policy declared with the empty applied spec of the
\* controller tests: there the property holds
C2_WithEmptyAppliedSpec ==
    (/\ OnLivePolicy /\ Pre.Status.PolicyID = 0
     /\ Pre.Status.AppliedSpec = Ptr(EmptyPolicySpec)
     /\ \A r \in last.preRemote : r.Name # Pre.Spec.Name
     /\ ClientBuilt /\ AllCallsOK)
        => /\ Count("CreatePolicy") = 1
           /\ last.res = "ok"
           /\ policy # <<>>
           /\ policy[1].Status.PolicyID # 0
           /\ \E i \in CallIdx : /\ Calls[i].op = "CreatePolicy"
                                 /\ Calls[i].id = policy[1].Status.PolicyID

-----------------------------------------------------------------------------
(* C3 *)

CreatePolicyFailed == \E i \in CallIdx : Calls[i].op = "CreatePolicy" /\ ~Calls[i].ok

\* C3 (error preserves pre-state): when the remote CreatePolicy call returns
\* an error, the invocation returns an error, the stored PolicyID keeps its
\* prior value 0 and nothing is written to the store.
C3_CreateErrorPreservesState ==
    (last.kind = "policy" /\ CreatePolicyFailed)
        => /\ last.res = "err"
           /\ policy = last.pre
           /\ policy[1].Status.PolicyID = 0
           /\ NoStoreWrites

C3_Witness ==
    /\ last.kind = "policy" /\ CreatePolicyFailed
    /\ last.res = "err" /\ policy # <<>> /\ policy[1].Status.PolicyID = 0

-----------------------------------------------------------------------------
(* C4 *)

\* the child conditions recorded in the applied spec before the invocation
RecordedChildren ==
    IF Pre.Status.AppliedSpec = Nil THEN <<>> ELSE Pre.Status.AppliedSpec[1].Conditions

FinalizerGone ==
    policy = <<>> \/ ~containsString(policy[1].Finalizers, PolicyFinalizer)

DeletingSyncedPolicy ==
    /\ OnDeletingPolicy
    /\ containsString(Pre.Finalizers, PolicyFinalizer)
    /\ Pre.Status.PolicyID # 0

\* C4 (deletion ordering): when a policy with deletion timestamp, finalizer
\* and PolicyID # 0 is reconciled, the store delete of every recorded child
\* is invoked before the remote DeletePolicy call; the finalizer leaves the
\* stored policy only through a store update made after a successful
\* DeletePolicy call; after a successful pass the recorded children and the
\* finalizer are gone.
C4_DeletionOrdering ==
    DeletingSyncedPolicy
        => /\ \A i \in CallIdx :
                Calls[i].op = "DeletePolicy"
                    => \A k \in 1..Len(RecordedChildren) :
                          \E j \in 1..(i - 1) :
                              /\ Calls[j].op = "DeleteCondition"
                              /\ Calls[j].name = RecordedChildren[k].Name
           /\ FinalizerGone
                => \E i \in CallIdx :
                      /\ Calls[i].op = "DeletePolicy" /\ Calls[i].ok
                      /\ \E j \in (i + 1)..Len(Calls) :
                            Calls[j].op = "Update" /\ Calls[j].ok
           /\ (ClientBuilt /\ last.res = "ok")
                => /\ FinalizerGone
                   /\ \A k \in 1..Len(RecordedChildren) :
                         ~HasCondition(conditions, RecordedChildren[k].Name)

\* a policy with a recorded child was torn down in one successful pass
C4_Witness ==
    /\ DeletingSyncedPolicy
    /\ Len(RecordedChildren) >= 1
    /\ Count("DeleteCondition") >= 1
    /\ Count("DeletePolicy") = 1
    /\ last.res = "ok"
    /\ policy = <<>>

-----------------------------------------------------------------------------
(* C5 *)

DirtySyncedPolicy ==
    OnLivePolicy /\ Pre.Status.PolicyID # 0 /\ ~SpecEqualsApplied(Pre)

-----------------------------------------------------------------------------
(* C6 *)

\* the remote policies, before the invocation, named exactly as the policy
MatchingIDs == {r.ID : r \in {x \in last.preRemote : x.Name = Pre.Spec.Name}}

Discovered ==
    /\ OnLivePolicy /\ Pre.Status.PolicyID = 0 /\ ~SpecEqualsApplied(Pre)
    /\ \E i \in CallIdx : Calls[i].op = "ListPolicies" /\ Calls[i].ok
    /\ MatchingIDs # {}

\* C6 (discovery de-duplication): on a policy not marked for deletion with
\* PolicyID = 0 and spec # appliedSpec, when the ListPolicies result holds a
\* policy named exactly Spec.Name, the invocation makes no CreatePolicy call
\* and goes the update path with the identifier of such a policy: the one
\* UpdatePolicy call carries it, and on success it is the stored PolicyID.
C6_DiscoveryAdopts ==
    Discovered
        => /\ Count("CreatePolicy") = 0
           /\ Count("UpdatePolicy") = 1
           /\ \A i \in CallIdx :
                Calls[i].op = "UpdatePolicy" => Calls[i].id \in MatchingIDs
           /\ last.res = "ok"
                => policy # <<>> /\ policy[1].Status.PolicyID \in MatchingIDs

\* adopted although the listing also held a policy of another name
C6_Witness ==
    /\ Discovered /\ last.res = "ok"
    /\ \E r \in last.preRemote : r.Name # Pre.Spec.Name
    /\ policy # <<>> /\ policy[1].Status.PolicyID \in MatchingIDs

-----------------------------------------------------------------------------
(* C7 *)

\* C7: after any invocation, whatever failed in it, the stored PolicyID is
\* non-zero if and only if a corresponding remote policy exists: a non-zero
\* PolicyID names a remote policy, and while it is 0 the remote API holds no
\* policy that the operator created for this resource.
C7_IdentifierIffRemote ==
    (last.kind = "policy" /\ policy # <<>>)
        => /\ policy[1].Status.PolicyID # 0
                => policy[1].Status.PolicyID \in RemoteIDs(remotePolicies)
           /\ policy[1].Status.PolicyID = 0
                => \A r \in remotePolicies : r.Origin # "operator"

\* the same invariant restricted to invocations that returned normally:
\* it fails as well (a failed status write after CreatePolicy)
C7_WithoutPanics ==
    last.res # "panic" => C7_IdentifierIffRemote

-----------------------------------------------------------------------------
(* C8 *)

StepFailed ==
    \E i \in CallIdx :
        /\ Calls[i].op \in {"CreatePolicy", "UpdatePolicy", "CreateCondition",
                            "UpdateCondition", "Update"}
        /\ ~Calls[i].ok

\* C8: when a step of the create or update path fails (the remote create or
\* update call, the creation or update of a child condition in the store, or
\* the final status persistence), the invocation returns an error and the
\* stored AppliedSpec keeps its prior value.
C8_AppliedSpecNotAdvancedOnFailure ==
    (OnLivePolicy /\ ~SpecEqualsApplied(Pre) /\ StepFailed)
        => /\ last.res = "err"
           /\ policy # <<>>
           /\ policy[1].Status.AppliedSpec = Pre.Status.AppliedSpec

-----------------------------------------------------------------------------
(* C9 *)

\* C9: when the fetch of the resource reports not-found, the invocation is a
\* successful no-op: it returns no error and makes no credential lookup, no
\* client, no remote call and no store write (the failed Get is its only call).
C9_NotFoundIsNoOp ==
    (Invoked /\ last.pre = <<>>)
        => /\ last.res = "ok"
           /\ Len(Calls) = 1 /\ Calls[1].op = "Get" /\ ~Calls[1].ok
           /\ StoredNow = <<>>

\* the policy was reconciled after the store had removed it
C9_Witness ==
    /\ last.kind = "policy" /\ last.pre = <<>>
    /\ last.res = "ok" /\ Len(Calls) = 1

-----------------------------------------------------------------------------
(* C10 *)

\* credential resolution yields "": no inline key, and no secret reference
\* or a secret lookup that failed
KeyBlank ==
    /\ Pre.Spec.APIKey = ""
    /\ \/ Pre.Spec.APIKeySecret = NoSecret
       \/ \E i \in CallIdx : Calls[i].op = "GetSecret" /\ ~Calls[i].ok

FactoryFailed == \E i \in CallIdx : Calls[i].op = "AlertClientFunc" /\ ~Calls[i].ok

\* C10: when credential resolution yields an empty API key or the client
\* factory returns an error, the invocation returns an error without any
\* remote call or store write, for resources marked for deletion or not, and
\* the stored resource (applied spec, identifier, finalizers) is unchanged.
C10_CredentialFailureAborts ==
    (Invoked /\ Fetched /\ (KeyBlank \/ FactoryFailed))
        => /\ last.res = "err"
           /\ NoRemoteCalls
           /\ NoStoreWrites
           /\ StoredNow = last.pre

\* the secret lookup failed for a synced policy marked for deletion
C10_Witness ==
    /\ OnDeletingPolicy /\ Fetched /\ KeyBlank
    /\ Pre.Status.PolicyID # 0
    /\ last.res = "err"

-----------------------------------------------------------------------------
(* C11 *)

DeletePolicyFailed == \E i \in CallIdx : Calls[i].op = "DeletePolicy" /\ ~Calls[i].ok
ChildDeleteFailed == \E i \in CallIdx : Calls[i].op = "DeleteCondition" /\ ~Calls[i].ok

StoredFinalizerKept ==
    policy = last.pre /\ containsString(policy[1].Finalizers, PolicyFinalizer)

-----------------------------------------------------------------------------
(* C12 *)

\* the calls that create, update or delete the remote entity
RemoteMutationOps ==
    {"CreatePolicy", "UpdatePolicy", "DeletePolicy", "CreateChannel", "DeleteChannel"}

RemoteMutations == {i \in CallIdx : Calls[i].op \in RemoteMutationOps}

\* C12: one Reconcile invocation, of a policy or of a channel, makes at most
\* one remote mutating call (create, update or delete of the entity),
\* whatever the state of the entity and whichever collaborator calls fail.
C12_AtMostOneRemoteMutation ==
    Invoked => Cardinality(RemoteMutations) <= 1

\* a channel with an identifier and an edited spec was torn down: the pass
\* went on past the deletion into the update branch and still made the one
\* DeleteChannel call only
C12_Witness ==
    /\ last.kind = "channel" /\ last.pre # <<>> /\ Pre.DeletionTimestamp # 0
    /\ Pre.Status.ChannelID # 0 /\ ~SpecEqualsApplied(Pre)
    /\ Count("DeleteChannel") = 1 /\ Cardinality(RemoteMutations) = 1
    /\ last.res = "ok"

-----------------------------------------------------------------------------
(* C13 *)

\* the calls that created, or tried to create, a child condition
ChildCreations == {i \in CallIdx : Calls[i].op = "CreateCondition"}

\* the declared conditions without a version token, as the policy held them
\* before the invocation
UncreatedSpecs ==
    {Pre.Spec.Conditions[k].Spec :
        k \in {j \in 1..Len(Pre.Spec.Conditions) :
                  Pre.Spec.Conditions[j].ResourceVersion = ""}}

\* C13 (deterministic child naming): the name under which a child condition
\* is created is the parent policy's name followed by the decimal 32-bit
\* content hash of the condition specification as declared; it is the same
\* in every invocation, whatever the policy identifier, the applied spec,
\* the remote account or the outcome of the calls, and conditions with the
\* same specification get the same name.
C13_DeterministicChildNaming ==
    (last.kind = "policy" /\ last.pre # <<>>)
        => \A i \in ChildCreations :
              \E cs \in UncreatedSpecs :
                  Calls[i].name = Pre.Name \o Decimal32(ComputeHash(cs))

\* a child was created for a policy that had just adopted the identifier of
\* an existing remote policy, under the hash name of the declared condition
C13_Witness ==
    /\ OnLivePolicy
    /\ Pre.Status.PolicyID = 0
    /\ Count("UpdatePolicy") = 1
    /\ \E i \in ChildCreations :
          /\ Calls[i].ok
          /\ Calls[i].name = Pre.Name \o Decimal32(ComputeHash(Pre.Spec.Conditions[1].Spec))
          /\ HasCondition(conditions, Calls[i].name)

-----------------------------------------------------------------------------
(* C14 *)

\* the invocation went the create path or the update path and succeeded
PathSucceeded ==
    /\ OnLivePolicy /\ ~SpecEqualsApplied(Pre)
    /\ Count("CreatePolicy") + Count("UpdatePolicy") = 1
    /\ last.res = "ok"

\* the declared conditions, none of which carries a version token
DeclaredWithoutToken ==
    /\ Len(Pre.Spec.Conditions) >= 1
    /\ \A k \in 1..Len(Pre.Spec.Conditions) : Pre.Spec.Conditions[k].ResourceVersion = ""

\* the child resource of the declared condition d exists in the store, with
\* the parent's region, credentials and policy identifier and a cleared status
ChildExists(d) ==
    \E k \in conditions :
        /\ k.Name = Pre.Name \o Decimal32(ComputeHash(d.Spec))
        /\ k.Spec.Name = d.Spec.Name /\ k.Spec.Query = d.Spec.Query
        /\ k.Spec.Region = Pre.Spec.Region
        /\ k.Spec.APIKey = Pre.Spec.APIKey
        /\ k.Spec.APIKeySecret = Pre.Spec.APIKeySecret
        /\ k.Spec.ExistingPolicyID = policy[1].Status.PolicyID
        /\ k.Status = ClearedConditionStatus

\* C14 (fan-out covers every declared condition): after a successful
\* create-path or update-path invocation of a policy whose spec declares
\* n >= 1 conditions without a version token, all n exist as child resources
\* in the store, each with the parent's region, credentials and policy
\* identifier and a cleared status.
C14_FanOutCoversEveryCondition ==
    (PathSucceeded /\ DeclaredWithoutToken)
        => \A k \in 1..Len(Pre.Spec.Conditions) : ChildExists(Pre.Spec.Conditions[k])

\* the first declared condition is fanned out as described
C14_FirstConditionOnly ==
    (PathSucceeded /\ DeclaredWithoutToken) => ChildExists(Pre.Spec.Conditions[1])

-----------------------------------------------------------------------------
(* C15 *)

\* The stored policy and its surroundings before the invocation are as a create
\* pass leaves them whose remote create and child creation succeeded and
\* whose final store update failed: no identifier and the old applied spec
\* in the store, the spec as declared, the created policy in the remote
\* account, the child of the first declared condition in the store.
AfterFailedPersist ==
    /\ OnLivePolicy
    /\ Pre.Status.PolicyID = 0
    /\ Pre.Status.AppliedSpec # Nil /\ ~SpecEqualsApplied(Pre)
    /\ \E r \in last.preRemote : r.Origin = "operator" /\ r.Name = Pre.Spec.Name
    /\ \A k \in 1..Len(Pre.Spec.Conditions) : Pre.Spec.Conditions[k].ResourceVersion = ""
    /\ Len(Pre.Spec.Conditions) >= 1
         => HasCondition(last.preConds,
                         Pre.Name \o Decimal32(ComputeHash(Pre.Spec.Conditions[1].Spec)))

RetryConverged ==
    /\ last.res = "ok"
    /\ Count("CreatePolicy") = 0
    /\ policy # <<>>
    /\ SpecEqualsApplied(policy[1])
    /\ policy[1].Status.PolicyID # 0

\* C15 (retry after a status-persistence failure converges): when, on the
\* create path, the remote create and the child creation succeeded and the
\* final store update of the policy failed, an invocation on the unchanged
\* spec in which no collaborator fails against its contract returns success,
\* makes no CreatePolicy call and leaves the stored appliedSpec equal to the
\* spec and PolicyID # 0.
C15_RetryConverges ==
    (AfterFailedPersist /\ ~last.injected) => RetryConverged

\* the same for a policy that declares no condition: there the retry converges
C15_RetryWithoutConditions ==
    (AfterFailedPersist /\ ~last.injected /\ Pre.Spec.Conditions = <<>>) => RetryConverged

-----------------------------------------------------------------------------
(* C16 *)

ListPoliciesFailed == \E i \in CallIdx : Calls[i].op = "ListPolicies" /\ ~Calls[i].ok

\* no remote policy made by the invocation bears a name the account already held
NoNewDuplicate ==
    \A r \in remotePolicies \ last.preRemote :
        \A q \in last.preRemote : q.Name # r.Name

\* C16: a failure of the discovery ListPolicies call is returned as the
\* invocation's error and no CreatePolicy call is made in that invocation,
\* so that a failed lookup never leads to a second remote policy of a name
\* that the remote account already holds.
C16_ListFailureAborts ==
    (last.kind = "policy" /\ ListPoliciesFailed)
        => /\ last.res = "err"
           /\ Count("CreatePolicy") = 0
           /\ NoNewDuplicate

\* the part of it about duplicates alone, for invocations that return
\* normally: it fails as well
C16_NoDuplicateAfterListFailure ==
    (last.kind = "policy" /\ ListPoliciesFailed /\ last.res # "panic") => NoNewDuplicate

-----------------------------------------------------------------------------
(* C17 *)

\* a policy marked for deletion that carries the finalizer and was never
\* synced, in an invocation that got as far as the deletion protocol
DeletingNeverSynced ==
    /\ OnDeletingPolicy /\ ClientBuilt
    /\ containsString(Pre.Finalizers, PolicyFinalizer)
    /\ Pre.Status.PolicyID = 0

DeletingWithoutFinalizer ==
    /\ OnDeletingPolicy /\ ClientBuilt
    /\ ~containsString(Pre.Finalizers, PolicyFinalizer)

NoChildDelete == Count("DeleteCondition") = 0

\* C17 (deletion of a never-synced policy releases it): for a policy with
\* deletion timestamp, finalizer and stored PolicyID = 0 the invocation
\* makes no remote call and no child delete, returns success, and afterwards
\* the stored policy no longer carries the finalizer; when the finalizer is
\* already absent the invocation does nothing and returns success.
C17_NeverSyncedDeletionReleases ==
    /\ DeletingNeverSynced
         => /\ NoRemoteCalls /\ NoChildDelete
            /\ last.res = "ok"
            /\ FinalizerGone
    /\ DeletingWithoutFinalizer
         => /\ NoRemoteCalls /\ NoStoreWrites
            /\ last.res = "ok"
            /\ policy = last.pre

\* all of it but the release: no remote call, no child delete, success, and
\* nothing done when the finalizer is absent
C17_NeverSyncedDeletionIsQuiet ==
    /\ DeletingNeverSynced
         => (NoRemoteCalls /\ NoChildDelete /\ last.res = "ok")
    /\ DeletingWithoutFinalizer
         => (NoRemoteCalls /\ NoStoreWrites /\ last.res = "ok" /\ policy = last.pre)

\* both cases of C17 occur
C17_CaseNeverSynced == DeletingNeverSynced
C17_CaseWithoutFinalizer == DeletingWithoutFinalizer

-----------------------------------------------------------------------------
(* C18 *)

\* Before the invocation the policy is as an aborted deletion pass leaves
\* it: marked for deletion, finalizer and identifier in place, the remote
\* policy still there, every recorded child once created and at least one
\* of them already deleted from the store.
AfterAbortedDeletion ==
    /\ DeletingSyncedPolicy
    /\ Pre.Status.PolicyID \in RemoteIDs(last.preRemote)
    /\ \A k \in 1..Len(RecordedChildren) : RecordedChildren[k].Name # ""
    /\ \E k \in 1..Len(RecordedChildren) :
          ~HasCondition(last.preConds, RecordedChildren[k].Name)

\* C18 (policy deletion completes once failures stop): after a deletion pass
\* that was aborted when some recorded children were already deleted, an
\* invocation in which no collaborator fails against its contract deletes
\* the remote policy and removes the finalizer from the stored policy.
C18_DeletionCompletesOnRetry ==
    (AfterAbortedDeletion /\ ~last.injected)
        => /\ last.res = "ok"
           /\ Pre.Status.PolicyID \notin RemoteIDs(remotePolicies)
           /\ FinalizerGone

\* what such an invocation does: it returns an error and changes nothing, so
\* that every later one starts from the same state
C18_RetryChangesNothing ==
    (AfterAbortedDeletion /\ ~last.injected)
        => /\ last.res = "err"
           /\ policy = last.pre
           /\ conditions = last.preConds
           /\ remotePolicies = last.preRemote

\* such a retry happens
C18_CaseRetried == AfterAbortedDeletion /\ ~last.injected

-----------------------------------------------------------------------------
(* C19 *)

OnDeletingChannel ==
    last.kind = "channel" /\ last.pre # <<>> /\ Pre.DeletionTimestamp # 0

\* identifier and applied spec of the stored channel are as before
ChannelStatusUnwritten == channel # <<>> => channel[1].Status = Pre.Status

\* C19 (channel deletion is terminal for the invocation): when the channel's
\* deletion timestamp is set, the invocation only tears down: it makes no
\* CreateChannel call (the reconciler has no remote update call for channels) and
\* writes no identifier or applied spec, whatever ChannelID, spec and
\* appliedSpec are, ChannelID = 0 with spec # appliedSpec included.
C19_ChannelDeletionIsTerminal ==
    OnDeletingChannel
        => /\ Count("CreateChannel") = 0
           /\ remoteChannels \subseteq last.preChans
           /\ ChannelStatusUnwritten

\* the same for channels that have an identifier: there it holds
C19_TerminalWithIdentifier ==
    (OnDeletingChannel /\ Pre.Status.ChannelID # 0)
        => /\ Count("CreateChannel") = 0
           /\ remoteChannels \subseteq last.preChans
           /\ ChannelStatusUnwritten

-----------------------------------------------------------------------------
(* C20 *)

DeletingSyncedChannel ==
    /\ OnDeletingChannel
    /\ containsString(Pre.Finalizers, ChannelFinalizer)
    /\ Pre.Status.ChannelID # 0

ChannelFinalizerGone ==
    channel = <<>> \/ ~containsString(channel[1].Finalizers, ChannelFinalizer)

DeleteChannelFailed == \E i \in CallIdx : Calls[i].op = "DeleteChannel" /\ ~Calls[i].ok

\* C20: for a channel marked for deletion with ChannelID # 0, the finalizer
\* leaves the stored channel only after the remote DeleteChannel call has
\* succeeded; when DeleteChannel returns an error the invocation returns an
\* error and the finalizer stays on the stored channel.
C20_ChannelFinalizerAfterRemoteDelete ==
    DeletingSyncedChannel
        => /\ ChannelFinalizerGone
                => \E i \in CallIdx :
                      /\ Calls[i].op = "DeleteChannel" /\ Calls[i].ok
                      /\ \E j \in (i + 1)..Len(Calls) :
                            Calls[j].op = "Update" /\ Calls[j].ok
           /\ DeleteChannelFailed
                => /\ last.res = "err"
                   /\ ~ChannelFinalizerGone

\* when DeleteChannel succeeds, the finalizer is removed after it
C20_RemovedAfterSuccessfulDelete ==
    (DeletingSyncedChannel /\ ~DeleteChannelFailed /\ ChannelFinalizerGone)
        => \E i \in CallIdx :
              /\ Calls[i].op = "DeleteChannel" /\ Calls[i].ok
              /\ \E j \in (i + 1)..Len(Calls) : Calls[j].op = "Update" /\ Calls[j].ok

-----------------------------------------------------------------------------
(* C21 *)

\* a channel not marked for deletion, with an identifier, whose spec differs
\* from its applied spec, in an invocation that succeeded past the client
DirtySyncedChannelReconciled ==
    /\ last.kind = "channel" /\ last.pre # <<>> /\ Pre.DeletionTimestamp = 0
    /\ Pre.Status.ChannelID # 0 /\ ~SpecEqualsApplied(Pre)
    /\ ClientBuilt /\ last.res = "ok"

\* C21 (channel update converges): for a channel not marked for deletion,
\* with ChannelID # 0 and spec # appliedSpec, a successful invocation leaves
\* AppliedSpec = Spec and the identifier in the store, so that the next
\* invocation on the unchanged spec takes the no-op short-circuit.
C21_ChannelUpdateConverges ==
    DirtySyncedChannelReconciled
        => /\ channel # <<>>
           /\ SpecEqualsApplied(channel[1])
           /\ channel[1].Status.ChannelID # 0

\* what the update path of the channel does: no call after the client, no
\* write, the stored channel as before
C21_ChannelUpdateDoesNothing ==
    DirtySyncedChannelReconciled
        => /\ NoRemoteCalls /\ NoStoreWrites
           /\ channel = last.pre

\* the case occurs
C21_CaseUpdated == DirtySyncedChannelReconciled


-----------------------------------------------------------------------------
(* C22: no cross-invocation leakage under concurrency *)

\* the client built from the request's own API key and region
OwnClient(w) ==
    AlertsClientFor(RequestedPolicy(w).Spec.APIKey, RequestedPolicy(w).Spec.Region)

\* C22 (no cross-invocation leakage): when invocations for two requests with
\* different keys and regions interleave on the same reconciler, every remote
\* call made for a request goes through the client built from that request's
\* own key and region, and every key logged for it is its own.
C22_NoCrossInvocationLeakage ==
    /\ \A rc \in remoteCalls : rc.client = OwnClient(rc.for)
    /\ \A l \in logged : l.key = RequestedPolicy(l.for).Spec.APIKey

\* C22, the part that survives: the client an invocation builds into its
\* local variable carries its own region, whatever the other invocation did.
C22_LocalClientHasOwnRegion ==
    \A w \in Requests :
        worker[w].alertsClient # Nil
            => worker[w].alertsClient[1].region = RequestedPolicy(w).Spec.Region

\* C22: a remote call was made while the other request's invocation was
\* running too.
C22_CaseInterleaved ==
    \E rc \in remoteCalls : \E w \in Requests \ {rc.for} : ~At(w, "rest")

-----------------------------------------------------------------------------
(* C23: the reconciler only reads the PolicySpec *)

\* C23 (spec is read-only): after any Reconcile invocation the spec of the
\* stored policy, its condition list included, is the spec the user declared
\* (the one stored when the invocation began).
C23_SpecIsOnlyRead ==
    (last.kind = "policy" /\ last.pre # <<>> /\ policy # <<>>)
        => policy[1].Spec = Pre.Spec

\* C23, the part that survives: outside the condition list the stored spec
\* is left as declared.
C23_SpecOutsideConditionsIsOnlyRead ==
    (last.kind = "policy" /\ last.pre # <<>> /\ policy # <<>>)
        => [policy[1].Spec EXCEPT !.Conditions = <<>>]
             = [Pre.Spec EXCEPT !.Conditions = <<>>]

\* C23: an invocation created a child condition and persisted the policy.
C23_CaseConditionCreated ==
    /\ last.kind = "policy" /\ last.res = "ok"
    /\ Count("CreateCondition") > 0 /\ Count("Update") > 0

-----------------------------------------------------------------------------
(* C24: identifier, applied spec and finalizer are persisted together *)

\* how often the deletion finalizer occurs on the object
FinalizerCount(obj) ==
    Cardinality({i \in 1..Len(obj.Finalizers) : obj.Finalizers[i] = PolicyFinalizer})

\* C24 (persisted together): in every stored state of a policy that is not
\* marked for deletion, a non-zero stored PolicyID implies that the stored
\* AppliedSpec is set and that the deletion finalizer is on the stored policy
\* exactly once.
C24_PersistedTogether ==
    (policy # <<>> /\ policy[1].DeletionTimestamp = 0
       /\ policy[1].Status.PolicyID # 0)
        => /\ policy[1].Status.AppliedSpec # Nil
           /\ FinalizerCount(policy[1]) = 1

\* C24: an invocation took a stored policy with PolicyID = 0 and no finalizer
\* to a stored policy with an identifier.
C24_CaseSyncedFromBare ==
    /\ OnLivePolicy
    /\ Pre.Status.PolicyID = 0 /\ Pre.Finalizers = <<>>
    /\ policy # <<>> /\ policy[1].Status.PolicyID # 0

-----------------------------------------------------------------------------
(* C25: phase separation for policies *)

SyncOps == {"CreatePolicy", "UpdatePolicy", "ListPolicies", "CreateCondition"}
TeardownOps == {"DeletePolicy", "DeleteCondition"}

\* C25 (phase separation): an invocation issues no CreatePolicy, UpdatePolicy
\* or ListPolicies call and creates no child condition for a policy whose
\* deletion timestamp is set, and issues no DeletePolicy call and deletes no
\* child condition for a policy whose deletion timestamp is not set.
C25_PhaseSeparation ==
    /\ OnDeletingPolicy => \A i \in CallIdx : Calls[i].op \notin SyncOps
    /\ OnLivePolicy => \A i \in CallIdx : Calls[i].op \notin TeardownOps

\* C25: an invocation deleted the remote policy of a stored policy that is
\* marked for deletion while its spec was not the applied one.
C25_CaseTeardownOfDirtyPolicy ==
    /\ OnDeletingPolicy
    /\ ~SpecEqualsApplied(Pre)
    /\ Count("DeletePolicy") > 0
    /\ last.res = "ok"

\* C25: an invocation created the remote policy and a child condition of a
\* stored policy that is not marked for deletion.
C25_CaseSyncOfLivePolicy ==
    /\ OnLivePolicy
    /\ Count("CreatePolicy") > 0
    /\ Count("CreateCondition") > 0

-----------------------------------------------------------------------------
(* C26: any failure of the primary fetch ends the invocation quietly *)

\* the Get of the resource failed, for whatever reason
FetchFailed == Invoked /\ Calls # <<>> /\ Calls[1].op = "Get" /\ ~Calls[1].ok

\* C26 (fetch failure is swallowed): when the Get of the policy or of the
\* channel fails, whether with not-found or with any other error, the
\* invocation returns success, makes no remote call and no store write (the
\* failed Get is its only call), and leaves the stores as they were.
C26_AnyFetchFailureIsQuiet ==
    FetchFailed
        => /\ last.res = "ok"
           /\ Len(Calls) = 1
           /\ NoRemoteCalls /\ NoStoreWrites
           /\ StoredNow = last.pre
           /\ remotePolicies = last.preRemote \/ last.kind = "channel"
           /\ remoteChannels = last.preChans \/ last.kind = "policy"

\* C26: the Get of a policy that is in the store failed.
C26_CasePolicyFetchError ==
    FetchFailed /\ last.kind = "policy" /\ last.pre # <<>>

\* C26: the Get of a channel that is in the store failed.
C26_CaseChannelFetchError ==
    FetchFailed /\ last.kind = "channel" /\ last.pre # <<>>
====
